---- MODULE Spec2Model ----
(***************************************************************************)
(* Conversation workflow engine of the pet-grooming bot: the per-thread    *)
(* ConversationState, the stage handlers of WorkflowNodes, the booking     *)
(* step of ServiceIntegrator and the turn processing of WorkflowManager.   *)
(*                                                                         *)
(* Encoding of Python values.  An Optional[...] attribute is a sequence of *)
(* length at most one: << >> is None and <<v>> is the value v.  Text is a  *)
(* string; a number is the string of its decimal literal ("0", "3").       *)
(* Attributes that are not Optional (status, response, ...) hold the bare  *)
(* string.                                                                 *)
(***************************************************************************)
EXTENDS Integers, Sequences, FiniteSets, TLC

VARIABLES
    state,          \* the ConversationState object the handlers are invoked on
    last,           \* the last handler invocation on `state` and how it ended
    now,            \* the wall clock, in hours
    llm_reply,      \* the extraction outcome handed to collect_details (ExtractSpec)
    thread_states,  \* WorkflowManager.thread_states: lead_id -> ConversationState
    sheet,          \* the spreadsheet: the rows of the Leads and Pets sheets
    turn,           \* the process_message call in flight
    calls           \* the process_message coroutines of ConcurrentSpec

vars == <<state, last, now, llm_reply, thread_states, sheet, turn, calls>>

-----------------------------------------------------------------------------
(* Bounds of the model *)

\* at most this many keys in one JSON object returned by the extraction call
MaxReplyKeys == 1
\* process_message is admitted while the conversation log is shorter than this
MaxHistory == 4
\* the clock stops at this hour
MaxClock == 2
\* a handler is applied to one object at most this many times in succession
MaxRepeat == 2
\* the process is restarted while a sheet holds fewer rows than this
MaxRows == 2

-----------------------------------------------------------------------------
(* Python values *)

None == << >>
Some(v) == <<v>>

\* the enumerated status set of the specification (section 3)
StatusSet ==
    {"initiated", "onboarded", "qualifying", "collecting_details", "qualified",
     "showing_services", "booking_appointment", "booked", "stalled",
     "completed", "cancelled"}

\* the values ConversationState.status is declared with
StatusLiteral ==
    {"initiated", "onboarded", "qualified", "booked", "completed", "cancelled"}

\* attributes declared Optional[...]
OptionalFields ==
    {"pet_id", "service_id", "appointment_id", "customer_name", "phone", "city",
     "pet_name", "species", "breed", "weight_kg", "age_years", "coat_condition",
     "pet_notes"}

\* attributes holding a number (weight_kg: float, age_years: int)
NumericFields == {"weight_kg", "age_years"}

LeadRequired == <<"customer_name", "phone">>
PetRequired == <<"pet_name", "species", "breed", "weight_kg", "age_years">>

\* Python truthiness of the value of attribute f: None, "" and 0 are falsy
Truthy(f, v) ==
    /\ v # None
    /\ IF f \in NumericFields THEN v[1] # "0" ELSE v[1] # ""

-----------------------------------------------------------------------------
(* ConversationState *)

\* the time the module was imported: the class-level defaults of
\* created_at_iso and last_activity are evaluated once, then
ImportTime == 0

\* ConversationState(lead_id=..., discord_user_id=..., pet_id=..., created_at_iso=...)
ConversationState(lead_id, discord_user_id, pet_id, created_at) ==
    [lead_id |-> lead_id,
     discord_user_id |-> discord_user_id,
     pet_id |-> pet_id,
     service_id |-> None,
     appointment_id |-> None,
     status |-> "initiated",
     customer_name |-> None,
     phone |-> None,
     city |-> None,
     created_at_iso |-> created_at,
     source |-> "discord",
     pet_name |-> None,
     species |-> None,
     breed |-> None,
     weight_kg |-> None,
     age_years |-> None,
     coat_condition |-> None,
     pet_notes |-> None,
     last_message |-> "",
     conversation_history |-> << >>,
     attempts_count |-> 0,
     last_activity |-> ImportTime,
     response |-> ""]

add_message(s, role, content, t) ==
    [s EXCEPT !.conversation_history =
                  Append(@, [role |-> role, content |-> content, timestamp |-> t]),
              !.last_message = content,
              !.last_activity = t]

update_status(s, new_status, t) ==
    [s EXCEPT !.status = new_status, !.last_activity = t]

get_missing_lead_fields(s) ==
    SelectSeq(LeadRequired, LAMBDA f : ~Truthy(f, s[f]))

get_missing_pet_fields(s) ==
    SelectSeq(PetRequired, LAMBDA f : ~Truthy(f, s[f]))

is_qualified(s) ==
    /\ Len(get_missing_lead_fields(s)) = 0
    /\ Len(get_missing_pet_fields(s)) = 0

-----------------------------------------------------------------------------
(* How an invocation ends: the object as the invocation left it, whether  *)
(* it returned or raised, and the value returned.                         *)

Returned(s, value) == [st |-> s, outcome |-> "returned", exc |-> "", value |-> value]
Raised(s, e) == [st |-> s, outcome |-> "raised", exc |-> e, value |-> ""]

-----------------------------------------------------------------------------
(* The language model's answer to the extraction prompt *)

\* keys of the JSON object: fact fields named in the prompt, two attributes
\* of ConversationState the prompt does not name, one key that is no attribute
ReplyKeys ==
    {"customer_name", "phone", "pet_name", "species", "breed",
     "weight_kg", "age_years", "status", "last_message", "favourite_toy"}

\* the JSON values a key may carry; None is JSON null
ReplyValues(k) ==
    CASE k = "customer_name" -> {None, Some(""), Some("Jane")}
      [] k = "phone" -> {Some("555-1212")}
      [] k = "pet_name" -> {Some("Rex")}
      [] k = "species" -> {Some("Dog")}
      [] k = "breed" -> {Some("Beagle")}
      [] k = "weight_kg" -> {Some("18.14")}
      [] k = "age_years" -> {None, Some("0"), Some("3")}
      [] k = "status" -> {Some("booked"), Some("bogus")}
      [] OTHER -> {Some("ball")}

AllReplyValues == UNION {ReplyValues(k) : k \in ReplyKeys}

Replies ==
    UNION {{d \in [K -> AllReplyValues] : \A k \in K : d[k] \in ReplyValues(k)} :
           K \in {K \in SUBSET ReplyKeys : Cardinality(K) <= MaxReplyKeys}}

EmptyReply == [k \in {} |-> None]

\* chat_model.invoke raises; the content is not JSON; the content is JSON but
\* no object (a list, a number, null); the content is a JSON object
ExtractionOutcomes ==
    {[kind |-> k, data |-> EmptyReply] : k \in {"raises", "malformed", "non_object"}}
    \cup {[kind |-> "object", data |-> d] : d \in Replies}

-----------------------------------------------------------------------------
(* WorkflowNodes *)

\* setattr(state, field, value) on a declared attribute
SetAttr(s, field, value) ==
    [s EXCEPT ![field] = IF field \in OptionalFields THEN value ELSE value[1]]

\* the loop without its "value is not None" test: a null erases the attribute
merge_without_none_test(s, data) ==
    [f \in DOMAIN s |->
        IF f \in DOMAIN data
        THEN IF data[f] = None THEN None ELSE SetAttr(s, f, data[f])[f]
        ELSE s[f]]

\* the loop over extracted_data.items(): a key is applied when its value is
\* not None and the state has an attribute of that name
merge_extracted_data(s, data) ==
    [f \in DOMAIN s |->
        IF f \in DOMAIN data /\ data[f] # None
        THEN SetAttr(s, f, data[f])[f]
        ELSE s[f]]

qualify_lead_node(s, t) ==
    LET s1 == update_status(s, "qualifying", t)
    IN  IF Len(get_missing_lead_fields(s1)) > 0 \/ Len(get_missing_pet_fields(s1)) > 0
        THEN Returned(update_status(s1, "collecting_details", t), "state")
        ELSE Returned(s1, "state")

\* service_integrator is not imported by workflow_nodes.py: the first use of
\* the name raises NameError, after the status update
collect_details_node(s, llm, t) ==
    LET s1 == IF llm.kind = "object" THEN merge_extracted_data(s, llm.data) ELSE s
    IN  IF is_qualified(s1)
        THEN Raised(update_status(s1, "qualified", t), "NameError")
        ELSE Returned(s1, "state")

\* service_integrator.get_available_services(): NameError on the first line
show_services_node(s, t) == Raised(s, "NameError")

\* book_appointment_node counting its invocations in attempts_count
book_appointment_counting(s, t) ==
    Returned([update_status(s, "booking_appointment", t)
                 EXCEPT !.attempts_count = @ + 1], "state")

book_appointment_node(s, t) ==
    Returned(update_status(s, "booking_appointment", t), "state")

\* datetime is not imported by workflow_nodes.py: NameError on the first line
follow_up_node(s, t) == Raised(s, "NameError")

\* str(value) inside an f-string
Str(v) == IF v = None THEN "None" ELSE v[1]

\* ", ".join(items)
RECURSIVE Join(_)
Join(items) ==
    IF Len(items) = 0 THEN ""
    ELSE IF Len(items) = 1 THEN items[1]
    ELSE items[1] \o ", " \o Join(Tail(items))

\* the fields the six "if ... in missing_..." tests of
\* _generate_collection_response add an item for; species has no test
missing_items_fields(s) ==
    LET missing == get_missing_lead_fields(s) \o get_missing_pet_fields(s)
        asked == <<"customer_name", "phone", "pet_name", "breed", "weight_kg",
                   "age_years">>
    IN  SelectSeq(asked, LAMBDA f : \E i \in 1..Len(missing) : missing[i] = f)

AllPresentMessage ==
    "Perfect! I have all the information I need. Let me show you our available services."

_generate_collection_response(s) ==
    LET words == [customer_name |-> "your name", phone |-> "your phone number",
                  pet_name |-> "your pet's name", breed |-> "your pet's breed",
                  weight_kg |-> "your pet's weight", age_years |-> "your pet's age"]
        fields == missing_items_fields(s)
        missing_items == [i \in 1..Len(fields) |-> words[fields[i]]]
        n == Len(missing_items)
        items_text == IF n > 1
                      THEN Join(SubSeq(missing_items, 1, n - 1))
                             \o " and " \o missing_items[n]
                      ELSE missing_items[1]
    IN  IF n > 0
        THEN "Thanks for that information! I still need " \o items_text
               \o " to help you better. Could you provide that?"
        ELSE AllPresentMessage

_generate_qualified_response(s) ==
    "Wonderful! I have all your details, " \o Str(s.customer_name) \o ". "
      \o Str(s.pet_name) \o " sounds like a lovely " \o Str(s.breed) \o "! "
      \o "Let me show you our available services and pricing."

_generate_confirmation_response(s) ==
    "Perfect! Your appointment has been booked for " \o Str(s.pet_name) \o ". "
      \o "You'll receive a confirmation with all the details. "
      \o "Is there anything else I can help you with today?"

\* generate_response_node marking the thread onboarded once it has answered
generate_response_onboarding(s, t) ==
    IF s.status \in {"qualifying", "collecting_details", "qualified",
                     "booking_appointment", "booked"}
    THEN Returned(update_status(add_message(s, "assistant", "Hi there!", t),
                                "onboarded", t), "state")
    ELSE Raised(s, "AttributeError")

\* the text composed for the status; available_services and brand_info are
\* no attributes of ConversationState, so reading them raises AttributeError
generate_response_node(s, t) ==
    IF s.status \in {"qualifying", "collecting_details", "qualified",
                     "booking_appointment", "booked"}
    THEN LET response ==
                 CASE s.status = "qualifying" ->
                        "Hi there! Welcome to our pet grooming service!"
                   [] s.status = "collecting_details" -> _generate_collection_response(s)
                   [] s.status = "qualified" -> _generate_qualified_response(s)
                   [] s.status = "booking_appointment" ->
                        "Great choice! Let me check our available time slots."
                   [] s.status = "booked" -> _generate_confirmation_response(s)
         IN  Returned(add_message(s, "assistant", response, t), "state")
    ELSE Raised(s, "AttributeError")

-----------------------------------------------------------------------------
(* ServiceIntegrator *)

AppointmentIds == {"APT1", "APT2"}
ServiceIds == {"SVC1"}

\* calendar_service.create_appointment returns (True, event_id) or (False, msg)
CalendarOutcomes == {"created", "refused"}

\* after the calendar event is created appointment_id and service_id are
\* set; state.appointment_date is no field of ConversationState, so the
\* assignment raises ValueError, which the handler catches: (False, str(e))
\* a variant that records the appointment before looking at the calendar's answer
create_appointment_eager(s, calendar, appointment_id, service_id) ==
    Returned([s EXCEPT !.appointment_id = Some(appointment_id),
                       !.service_id = Some(service_id)], "False")

create_appointment(s, calendar, appointment_id, service_id) ==
    IF calendar = "created"
    THEN Returned([s EXCEPT !.appointment_id = Some(appointment_id),
                            !.service_id = Some(service_id)], "False")
    ELSE Returned(s, "False")

-----------------------------------------------------------------------------
(* Handlers invoked on one ConversationState *)

LeadIds == {"T1"}
PetIds == {"PET1", "PET2"}
NoWork == ConversationState("", "", None, 0)
NoTurn ==
    [pc |-> "idle", lead_id |-> "", classification |-> "none", route |-> "none",
     status_before |-> "", work |-> NoWork, returned |-> "", ended |-> "none",
     before |-> NoWork, path |-> << >>]
\* bound: the number of process_message coroutines started concurrently
MaxCalls == 2
CallIds == 1..MaxCalls
NoCall ==
    [pc |-> "idle", lead_id |-> "", message |-> "", work |-> NoWork,
     response |-> "", returned |-> "", ended |-> "none", inserted |-> 0]
NoCalls == [c \in CallIds |-> NoCall]
NoInvocation == [node |-> "none", outcome |-> "none", extraction |-> "none"]
NoReply == [kind |-> "none", data |-> EmptyReply]

Invoked(node, r, extraction) ==
    /\ state' = r.st
    /\ last' = [node |-> node, outcome |-> r.outcome, extraction |-> extraction]
    /\ UNCHANGED <<calls, now, llm_reply, thread_states, sheet, turn>>

QualifyLead == Invoked("qualify_lead", qualify_lead_node(state, now), "none")

CollectDetails ==
    \E llm \in ExtractionOutcomes :
        Invoked("collect_details", collect_details_node(state, llm, now), llm.kind)

ShowServices == Invoked("show_services", show_services_node(state, now), "none")

BookAppointment == Invoked("book_appointment", book_appointment_node(state, now), "none")

FollowUp == Invoked("follow_up", follow_up_node(state, now), "none")

CreateAppointment ==
    \E c \in CalendarOutcomes, a \in AppointmentIds, sv \in ServiceIds :
        Invoked("create_appointment", create_appointment(state, c, a, sv), "none")

Init ==
    /\ \E p \in PetIds : state = ConversationState("T1", "U1", Some(p), 0)
    /\ last = NoInvocation
    /\ now = 0
    /\ llm_reply = NoReply
    /\ thread_states = [l \in {} |-> NoWork]
    /\ sheet = [leads |-> << >>, pets |-> << >>]
    /\ turn = NoTurn
    /\ calls = NoCalls

Next ==
    \/ QualifyLead
    \/ BookAppointment
    \/ ShowServices
    \/ FollowUp
    \/ CollectDetails
    \/ CreateAppointment

Spec == Init /\ [][Next]_vars

-----------------------------------------------------------------------------
(* collect_details applied once to a state with known facts: the object   *)
(* before the call and the extraction outcome are the inputs.              *)

\* facts recorded by earlier turns; none of them is a value of ReplyValues
WithPriorFacts(s) ==
    [s EXCEPT !.customer_name = Some("Ann"), !.phone = Some("555-0000"),
              !.city = Some("Oslo"), !.pet_name = Some("Tom"),
              !.species = Some("Cat"), !.breed = Some("Siamese"),
              !.weight_kg = Some("4.2"), !.age_years = Some("7")]

ExtractInputs ==
    LET fresh == ConversationState("T1", "U1", Some("PET1"), 0)
    IN  {update_status(s, st, 0) :
            s \in {fresh, WithPriorFacts(fresh),
                   [WithPriorFacts(fresh) EXCEPT !.age_years = None],
                   add_message(WithPriorFacts(fresh), "user", "hello", 0)},
            st \in {"qualifying", "collecting_details"}}

ExtractInit ==
    /\ state \in ExtractInputs
    /\ llm_reply \in ExtractionOutcomes
    /\ last = NoInvocation
    /\ now = 0
    /\ thread_states = [l \in {} |-> NoWork]
    /\ sheet = [leads |-> << >>, pets |-> << >>]
    /\ turn = NoTurn
    /\ calls = NoCalls

CollectDetailsOnce ==
    /\ last.node = "none"
    /\ LET r == collect_details_node(state, llm_reply, now)
       IN  /\ state' = r.st
           /\ last' = [node |-> "collect_details", outcome |-> r.outcome,
                       extraction |-> llm_reply.kind]
    /\ UNCHANGED <<calls, now, llm_reply, thread_states, sheet, turn>>

ExtractNext == CollectDetailsOnce

ExtractSpec == ExtractInit /\ [][ExtractNext]_vars

-----------------------------------------------------------------------------
(* One handler applied, once or repeatedly, to a state in any status, with *)
(* time passing between the applications.  The extraction outcome is fixed *)
(* for the whole behaviour, so a repeated collect_details sees the same    *)
(* result.                                                                 *)

\* what get_available_services() finds: rows, no row, or a store that fails
\* (it then returns the empty list)
CatalogOutcomes == {"services", "empty", "unavailable"}

\* the clock advances by one hour while no call of process_message is running
Tick ==
    /\ now < MaxClock
    /\ turn.pc = "idle"
    /\ now' = now + 1
    /\ UNCHANGED <<calls, state, last, llm_reply, thread_states, sheet, turn>>

StageInputs ==
    LET fresh == ConversationState("T1", "U1", Some("PET1"), 0)
    IN  {update_status(s, st, 0) :
            s \in {fresh, WithPriorFacts(fresh),
                   [WithPriorFacts(fresh) EXCEPT !.age_years = None],
                   [WithPriorFacts(fresh) EXCEPT !.species = None]},
            st \in StatusSet}

NoApplication == [node |-> "none", outcome |-> "none", extraction |-> "none", count |-> 0]

StageInit ==
    /\ state \in StageInputs
    /\ llm_reply \in ExtractionOutcomes
    /\ last = NoApplication
    /\ now = 0
    /\ thread_states = [l \in {} |-> NoWork]
    /\ sheet = [leads |-> << >>, pets |-> << >>]
    /\ turn = NoTurn
    /\ calls = NoCalls

Apply(node, r, input) ==
    /\ last.node \in {"none", node}
    /\ last.count < MaxRepeat
    /\ state' = r.st
    /\ last' = [node |-> node, outcome |-> r.outcome, extraction |-> input,
                count |-> last.count + 1]
    /\ UNCHANGED <<calls, now, llm_reply, thread_states, sheet, turn>>

ApplyQualifyLead == Apply("qualify_lead", qualify_lead_node(state, now), "none")

ApplyCollectDetails ==
    Apply("collect_details", collect_details_node(state, llm_reply, now), llm_reply.kind)

ApplyShowServices ==
    \E catalog \in CatalogOutcomes :
        /\ last.node = "show_services" => catalog = last.extraction
        /\ Apply("show_services", show_services_node(state, now), catalog)

ApplyBookAppointment ==
    Apply("book_appointment", book_appointment_node(state, now), "none")

ApplyFollowUp == Apply("follow_up", follow_up_node(state, now), "none")

ApplyGenerateResponse ==
    Apply("generate_response", generate_response_node(state, now), "none")

StageNext ==
    \/ ApplyQualifyLead
    \/ ApplyCollectDetails
    \/ ApplyShowServices
    \/ ApplyBookAppointment
    \/ ApplyFollowUp
    \/ ApplyGenerateResponse
    \/ Tick

StageSpec == StageInit /\ [][StageNext]_vars

-----------------------------------------------------------------------------
(* GoogleSheetsService: the Leads and Pets sheets as sequences of rows *)

\* insert_record(LEADS, state.model_dump()): a cell is data.get(field.name, ""),
\* so created_at and name, which model_dump() does not carry, are ""
LeadRow(s) ==
    [lead_id |-> s.lead_id, created_at |-> "", source |-> s.source,
     discord_user_id |-> s.discord_user_id, name |-> "",
     phone |-> IF s.phone = None THEN "" ELSE s.phone[1],
     city |-> IF s.city = None THEN "" ELSE s.city[1],
     status |-> s.status]

PetRow(s) ==
    [lead_id |-> s.lead_id,
     pet_id |-> IF s.pet_id = None THEN "" ELSE s.pet_id[1],
     status |-> s.status]

\* get_record: the first row whose first column is record_id, else None
get_record(rows, record_id) ==
    LET hits == SelectSeq(rows, LAMBDA r : r.lead_id = record_id)
    IN  IF Len(hits) = 0 THEN None ELSE Some(hits[1])

\* insert_record appends a row when the call succeeds
insert_record(rows, row, ok) == IF ok THEN Append(rows, row) ELSE rows

\* states handed to update_thread_state
RegisteredStates ==
    LET fresh == ConversationState("T1", "U1", Some("PET1"), 0)
    IN  {update_status(WithPriorFacts(fresh), st, 0) :
            st \in {"collecting_details", "qualified", "booked"}}

\* lead records written before this process started
StoredStatuses == {"initiated", "qualified", "in_progress"}

-----------------------------------------------------------------------------
(* WorkflowManager and the workflow graph *)

\* the first message of scenario A, and a question about the business
ScenarioAMessage == "Hi, my name is Jane, phone 555-1212"
Messages == {ScenarioAMessage, "what are your hours"}

\* content of the language model's answer to the classification prompt
ClassifyContents ==
    {"brand_information", "Brand_Information", "other", "qualify_lead", "garbage"}

\* the labels the classification prompt asks for
RecognizedLabels == {"brand_information", "other"}

\* str.lower()
Lower(c) == IF c = "Brand_Information" THEN "brand_information" ELSE c

\* content of the language model's answer to the brand-information prompt
BrandAnswers == {"We are open 9 to 5", ""}

Apology == "I'm sorry, I encountered an error. Please try again or contact support."

\* the seven stage identifiers of section 4.1
Stages ==
    {"qualify_lead", "collect_details", "show_services", "book_appointment",
     "provide_brand_info", "follow_up", "generate_response"}

\* classify_intent_node's goto for an answer of the language model
classify_goto(content) ==
    IF "brand_information" = Lower(content) THEN "provide_brand_info" ELSE "qualify_lead"

\* the edges create_workflow_graph adds; the conditional edges are commented out
GraphEdges == {<<"generate_response", "END">>}

\* the nodes a run can enter from the given ones along the edges
RECURSIVE Reachable(_)
Reachable(nodes) ==
    LET next == nodes \cup {e[2] : e \in {d \in GraphEdges : d[1] \in nodes}}
    IN  IF next = nodes THEN nodes ELSE Reachable(next)

\* the stages a run of the graph can enter after classify_intent, whatever
\* the language model answers, a stage identifier included
RoutableStages ==
    Reachable({classify_goto(c) : c \in ClassifyContents \cup Stages}) \ {"END"}

\* get_or_create_state without the test "lead_id not in self.thread_states"
get_or_create_unchecked(registry, rows, lead_id, discord_user_id, pet_id, found, ok_lead, ok_pet, t) ==
    LET conversation_state == ConversationState(lead_id, discord_user_id, Some(pet_id), t)
    IN  [outcome |-> "returned",
         registry |-> [l \in DOMAIN registry \cup {lead_id} |->
                          IF l = lead_id THEN conversation_state ELSE registry[l]],
         rows |-> [leads |-> insert_record(rows.leads, LeadRow(conversation_state), ok_lead),
                   pets |-> insert_record(rows.pets, PetRow(conversation_state), ok_pet)]]

\* the existing-lead branch builds state_kwargs from lead["created_at_iso"];
\* a Leads record has the key created_at, so the lookup raises KeyError
get_or_create_state(registry, rows, lead_id, discord_user_id, pet_id, found, ok_lead, ok_pet, t) ==
    IF lead_id \in DOMAIN registry
    THEN [outcome |-> "returned", registry |-> registry, rows |-> rows]
    ELSE LET lead == IF found THEN get_record(rows.leads, lead_id) ELSE None
         IN  IF lead = None
             THEN LET conversation_state ==
                          ConversationState(lead_id, discord_user_id, Some(pet_id), t)
                  IN  [outcome |-> "returned",
                       registry |-> [l \in DOMAIN registry \cup {lead_id} |->
                                        IF l = lead_id THEN conversation_state
                                        ELSE registry[l]],
                       rows |-> [leads |-> insert_record(rows.leads,
                                               LeadRow(conversation_state), ok_lead),
                                 pets |-> insert_record(rows.pets,
                                               PetRow(conversation_state), ok_pet)]]
             ELSE [outcome |-> "raised", registry |-> registry, rows |-> rows]

\* the call without its except clause: the exception reaches the caller
FailPropagates(lead_id, classification) ==
    turn' = [NoTurn EXCEPT !.lead_id = lead_id, !.returned = "",
                           !.ended = "propagated",
                           !.status_before = turn.status_before,
                           !.classification = classification,
                           !.route = turn.route,
                           !.before = turn.before,
                           !.path = turn.path]

\* the call returns the apology from its except clause
Fail(lead_id, classification) ==
    turn' = [NoTurn EXCEPT !.lead_id = lead_id, !.returned = Apology,
                           !.ended = "failed",
                           !.status_before = turn.status_before,
                           !.classification = classification,
                           !.route = turn.route,
                           !.before = turn.before,
                           !.path = turn.path]

\* process_message up to the await: get_or_create_state, add_message
ProcessMessage ==
    /\ turn.pc = "idle"
    /\ \E lead_id \in LeadIds, message \in Messages, pet_id \in PetIds,
          found \in BOOLEAN, ok_lead \in BOOLEAN, ok_pet \in BOOLEAN :
          /\ lead_id \in DOMAIN thread_states
                => Len(thread_states[lead_id].conversation_history) < MaxHistory
          /\ LET g == get_or_create_state(thread_states, sheet, lead_id, "U1", pet_id,
                                          found, ok_lead, ok_pet, now)
             IN  IF g.outcome = "raised"
                 THEN /\ Fail(lead_id, "none")
                      /\ UNCHANGED <<thread_states, sheet>>
                 ELSE LET s == add_message(g.registry[lead_id], "user", message, now)
                      IN  /\ thread_states' = [g.registry EXCEPT ![lead_id] = s]
                          /\ sheet' = g.rows
                          /\ turn' = [NoTurn EXCEPT !.pc = "classify_intent",
                                                    !.lead_id = lead_id,
                                                    !.status_before = s.status,
                                                    !.work = s,
                                                    !.before = g.registry[lead_id]]
    /\ UNCHANGED <<calls, state, last, now, llm_reply>>

\* classify_intent_node: chat_model.invoke is not guarded
ClassifyIntent ==
    /\ turn.pc = "classify_intent"
    /\ \/ Fail(turn.lead_id, "raises")
       \/ \E content \in ClassifyContents :
             LET goto == classify_goto(content)
             IN  turn' = [turn EXCEPT !.pc = goto, !.route = goto,
                                      !.classification = content,
                                      !.path = Append(@, "classify_intent")]
    /\ UNCHANGED <<calls, state, last, now, llm_reply, thread_states, sheet>>

\* qualify_lead with an edge back to classify_intent
QualifyLeadThenClassify ==
    /\ turn.pc = "qualify_lead"
    /\ turn' = [turn EXCEPT !.pc = "classify_intent",
                            !.work = qualify_lead_node(turn.work, now).st,
                            !.path = Append(@, "qualify_lead")]
    /\ UNCHANGED <<calls, state, last, now, llm_reply, thread_states, sheet>>

\* qualify_lead has no outgoing edge: the graph run ends after it
QualifyLeadStep ==
    /\ turn.pc = "qualify_lead"
    /\ turn' = [turn EXCEPT !.pc = "END",
                             !.work = qualify_lead_node(turn.work, now).st,
                             !.path = Append(@, "qualify_lead")]
    /\ UNCHANGED <<calls, state, last, now, llm_reply, thread_states, sheet>>

\* provide_brand_info_node with goto="qualify_lead" in place of goto=END
ProvideBrandInfoThenFunnel ==
    /\ turn.pc = "provide_brand_info"
    /\ \/ Fail(turn.lead_id, turn.classification)
       \/ \E content \in BrandAnswers :
             turn' = [turn EXCEPT !.pc = "qualify_lead", !.work.response = content,
                                  !.path = Append(@, "provide_brand_info")]
    /\ UNCHANGED <<calls, state, last, now, llm_reply, thread_states, sheet>>

\* provide_brand_info_node: Command(update={"response": ...}, goto=END)
ProvideBrandInfoStep ==
    /\ turn.pc = "provide_brand_info"
    /\ \/ Fail(turn.lead_id, turn.classification)
       \/ \E content \in BrandAnswers :
             turn' = [turn EXCEPT !.pc = "END", !.work.response = content,
                                  !.path = Append(@, "provide_brand_info")]
    /\ UNCHANGED <<calls, state, last, now, llm_reply, thread_states, sheet>>

\* after ainvoke: state.add_message("assistant", result["response"]); return it
Finish ==
    /\ turn.pc = "END"
    /\ LET response == turn.work.response
       IN  /\ thread_states' =
                 [thread_states EXCEPT ![turn.lead_id] =
                     add_message(@, "assistant", response, now)]
           /\ turn' = [turn EXCEPT !.pc = "idle", !.work = NoWork,
                                   !.returned = response, !.ended = "completed"]
    /\ UNCHANGED <<calls, state, last, now, llm_reply, sheet>>

\* update_thread_state(lead_id, state): the caller replaces the registered
\* object; the states handed in are ones the handlers produce
UpdateThreadState ==
    /\ turn.pc = "idle"
    /\ \E lead_id \in LeadIds, s \in RegisteredStates :
          thread_states' = [l \in DOMAIN thread_states \cup {lead_id} |->
                               IF l = lead_id THEN s ELSE thread_states[l]]
    /\ turn' = NoTurn
    /\ UNCHANGED <<calls, state, last, now, llm_reply, sheet>>

TurnInit ==
    /\ state = ConversationState("T1", "U1", Some("PET1"), 0)
    /\ last = NoInvocation
    /\ now = 0
    /\ llm_reply = NoReply
    /\ thread_states = [l \in {} |-> NoWork]
    /\ \E rows \in {<< >>} \cup
                   {<<[LeadRow(ConversationState(l, "U1", None, 0))
                          EXCEPT !.status = st]>> :
                       l \in LeadIds, st \in StoredStatuses} :
          sheet = [leads |-> rows, pets |-> << >>]
    /\ turn = NoTurn
    /\ calls = NoCalls

TurnNext ==
    \/ ProcessMessage
    \/ ClassifyIntent
    \/ QualifyLeadStep
    \/ ProvideBrandInfoStep
    \/ Finish
    \/ UpdateThreadState

TurnSpec == TurnInit /\ [][TurnNext]_vars

\* the same calls with time passing between them
IdleTurnNext ==
    \/ ProcessMessage
    \/ ClassifyIntent
    \/ QualifyLeadStep
    \/ ProvideBrandInfoStep
    \/ Finish
    \/ Tick

IdleTurnSpec == TurnInit /\ [][IdleTurnNext]_vars

\* the process ends and a new one starts: thread_states is an in-memory dict
\* and starts empty, the spreadsheet keeps its rows
Restart ==
    /\ turn.pc = "idle"
    /\ DOMAIN thread_states # {}
    /\ Len(sheet.leads) < MaxRows
    /\ Len(sheet.pets) < MaxRows
    /\ thread_states' = [l \in {} |-> NoWork]
    /\ turn' = NoTurn
    /\ UNCHANGED <<calls, state, last, now, llm_reply, sheet>>

RestartNext ==
    \/ ProcessMessage
    \/ ClassifyIntent
    \/ QualifyLeadStep
    \/ ProvideBrandInfoStep
    \/ Finish
    \/ Restart

RestartSpec == TurnInit /\ [][RestartNext]_vars

-----------------------------------------------------------------------------
(* process_message with its scheduling: every collaborator call returns or *)
(* raises and the event loop resumes the coroutine, so a step of a call in *)
(* progress that stays possible is eventually taken.  Nothing obliges a    *)
(* new call to arrive.                                                     *)

GraphStep ==
    \/ ClassifyIntent
    \/ QualifyLeadStep
    \/ ProvideBrandInfoStep
    \/ Finish

LiveTurnNext ==
    \/ ProcessMessage
    \/ ClassifyIntent
    \/ QualifyLeadStep
    \/ ProvideBrandInfoStep
    \/ Finish

LiveTurnSpec == TurnInit /\ [][LiveTurnNext]_vars /\ WF_vars(GraphStep)

-----------------------------------------------------------------------------
(* Several process_message coroutines on one event loop.  A coroutine runs *)
(* without interruption up to its await and again after it; another        *)
(* coroutine may run while it waits for the graph.                         *)

LeadRows(rows, lead_id) == SelectSeq(rows, LAMBDA r : r.lead_id = lead_id)

\* process_message up to "await self.app.ainvoke(...)"
StartCall(c, lead_id) ==
    /\ calls[c].pc = "idle"
    /\ \E message \in Messages, pet_id \in PetIds,
          found \in BOOLEAN, ok_lead \in BOOLEAN, ok_pet \in BOOLEAN :
          LET g == get_or_create_state(thread_states, sheet, lead_id, "U1", pet_id,
                                       found, ok_lead, ok_pet, now)
          IN  IF g.outcome = "raised"
              THEN /\ calls' = [calls EXCEPT ![c] =
                                   [NoCall EXCEPT !.pc = "done", !.lead_id = lead_id,
                                                  !.message = message,
                                                  !.returned = Apology,
                                                  !.ended = "failed"]]
                   /\ UNCHANGED <<thread_states, sheet>>
              ELSE LET s == add_message(g.registry[lead_id], "user", message, now)
                   IN  /\ thread_states' = [l \in DOMAIN g.registry |->
                                               IF l = lead_id THEN s ELSE g.registry[l]]
                       /\ sheet' = g.rows
                       /\ calls' = [calls EXCEPT ![c] =
                                       [NoCall EXCEPT !.pc = "awaiting",
                                                      !.lead_id = lead_id,
                                                      !.message = message,
                                                      !.work = s,
                                                      !.inserted =
                                                          Len(LeadRows(g.rows.leads, lead_id))
                                                            - Len(LeadRows(sheet.leads, lead_id))]]
    /\ UNCHANGED <<state, last, now, llm_reply, turn>>

CallStart(c) == \E lead_id \in LeadIds : StartCall(c, lead_id)

\* the graph run on the coroutine's copy of the state: classify_intent, then
\* provide_brand_info or qualify_lead; an exception ends the call in the
\* except clause
CallGraph(c) ==
    /\ calls[c].pc = "awaiting"
    /\ \/ calls' = [calls EXCEPT ![c].pc = "done", ![c].returned = Apology,
                                  ![c].ended = "failed"]
       \/ \E content \in ClassifyContents, answer \in BrandAnswers :
             LET response == IF "brand_information" = Lower(content) THEN answer
                             ELSE qualify_lead_node(calls[c].work, now).st.response
             IN  calls' = [calls EXCEPT ![c].pc = "resumed", ![c].response = response]
    /\ UNCHANGED <<state, last, now, llm_reply, thread_states, sheet, turn>>

\* the assistant entry appended to a log that all threads share
CallFinishSharedLog(c) ==
    /\ calls[c].pc = "resumed"
    /\ thread_states' =
          [l \in DOMAIN thread_states |->
              add_message(thread_states[l], "assistant", calls[c].response, now)]
    /\ calls' = [calls EXCEPT ![c].pc = "done", ![c].returned = calls[c].response,
                              ![c].ended = "completed"]
    /\ UNCHANGED <<state, last, now, llm_reply, sheet, turn>>

\* after the await: state.add_message("assistant", result["response"])
CallFinish(c) ==
    /\ calls[c].pc = "resumed"
    /\ thread_states' =
          [thread_states EXCEPT ![calls[c].lead_id] =
              add_message(@, "assistant", calls[c].response, now)]
    /\ calls' = [calls EXCEPT ![c].pc = "done", ![c].returned = calls[c].response,
                              ![c].ended = "completed"]
    /\ UNCHANGED <<state, last, now, llm_reply, sheet, turn>>

ConcurrentInit ==
    /\ state = ConversationState("T1", "U1", Some("PET1"), 0)
    /\ last = NoInvocation
    /\ now = 0
    /\ llm_reply = NoReply
    /\ thread_states = [l \in {} |-> NoWork]
    /\ sheet = [leads |-> << >>, pets |-> << >>]
    /\ turn = NoTurn
    /\ calls = NoCalls

ConcurrentNext ==
    \E c \in CallIds :
        \/ CallStart(c)
        \/ CallGraph(c)
        \/ CallFinish(c)

ConcurrentSpec == ConcurrentInit /\ [][ConcurrentNext]_vars

-----------------------------------------------------------------------------
(* Coroutines of two threads on one event loop: the calls are made for the *)
(* two threads in turn.  (Calls for one thread are those of                *)
(* ConcurrentSpec.)                                                        *)

ThreadIds == {"T1", "T2"}

\* the thread a call is made for
ThreadOf(c) == IF c % 2 = 1 THEN "T1" ELSE "T2"

ThreadCallStart(c) == StartCall(c, ThreadOf(c))

IsolationNext ==
    \E c \in CallIds :
        \/ ThreadCallStart(c)
        \/ CallGraph(c)
        \/ CallFinish(c)

IsolationSpec == ConcurrentInit /\ [][IsolationNext]_vars

-----------------------------------------------------------------------------
(* create_appointment called on a state in any status, with either answer  *)
(* of the calendar.                                                        *)

NoBooking ==
    [node |-> "none", outcome |-> "none", extraction |-> "none", success |-> "none"]

BookingInit ==
    /\ state \in StageInputs
    /\ last = NoBooking
    /\ now = 0
    /\ llm_reply = NoReply
    /\ thread_states = [l \in {} |-> NoWork]
    /\ sheet = [leads |-> << >>, pets |-> << >>]
    /\ turn = NoTurn
    /\ calls = NoCalls

\* last.extraction is the calendar's answer, last.success the first
\* component of the returned tuple
CreateAppointmentCall ==
    \E c \in CalendarOutcomes, a \in AppointmentIds, sv \in ServiceIds :
        LET r == create_appointment(state, c, a, sv)
        IN  /\ state' = r.st
            /\ last' = [node |-> "create_appointment", outcome |-> r.outcome,
                        extraction |-> c, success |-> r.value]
            /\ UNCHANGED <<calls, now, llm_reply, thread_states, sheet, turn>>

BookingNext == CreateAppointmentCall

BookingSpec == BookingInit /\ [][BookingNext]_vars

-----------------------------------------------------------------------------
(* Vocabulary of the claims *)

Range(seq) == {seq[i] : i \in 1..Len(seq)}

RequiredFields == Range(LeadRequired) \cup Range(PetRequired)

\* the fact fields of section 3
FactFields ==
    RequiredFields \cup {"city", "coat_condition", "pet_notes"}

\* A field is populated when it holds a value of its domain: any non-empty
\* text, any positive weight, any non-negative age (0 included).
Populated(f, v) ==
    /\ v # None
    /\ IF f = "age_years" THEN TRUE
       ELSE IF f \in NumericFields THEN v[1] # "0" ELSE v[1] # ""

AllPopulated(s) == \A f \in RequiredFields : Populated(f, s[f])

Facts(s) == [f \in FactFields |-> s[f]]

\* the funnel handlers of section 4.4
FunnelHandlers ==
    {"qualify_lead", "collect_details", "show_services", "book_appointment",
     "follow_up"}

\* statuses after which a thread is no longer active
TerminalStatuses == {"booked", "stalled", "completed", "cancelled"}

\* the edges of the transition table of section 4.4
TableEdge(node, from, to) ==
    \/ node = "qualify_lead" /\ from = "initiated"
         /\ to \in {"qualifying", "collecting_details"}
    \/ node = "collect_details" /\ from \in {"qualifying", "collecting_details"}
         /\ to \in {"qualified", "collecting_details"}
    \/ node = "show_services" /\ from = "qualified" /\ to = "showing_services"
    \/ node = "book_appointment" /\ from = "showing_services"
         /\ to = "booking_appointment"
    \/ node = "follow_up"
         /\ from \in StatusSet \ {"booked", "stalled", "completed", "cancelled"}
         /\ to = "stalled"

-----------------------------------------------------------------------------
(* C1: every change of status made by a stage handler is an edge of the   *)
(* transition table of section 4.4.                                        *)
C1_StatusChangeIsTableEdge ==
    [][state'.status # state.status
          => TableEdge(last'.node, state.status, state'.status)]_vars

(* C2: in every reachable state the status is one value of the enumerated  *)
(* set of section 3.                                                       *)
C2_StatusInEnumeratedSet == state.status \in StatusSet

(* C3: no single invocation takes a state from status initiated to status  *)
(* booked.                                                                 *)
C3_NoInitiatedToBooked ==
    [][~(state.status = "initiated" /\ state'.status = "booked")]_vars

(* C4: after collect_details on a state in qualifying or                   *)
(* collecting_details, the status is qualified if and only if all seven    *)
(* required fields hold a value of their domain (the first half of the     *)
(* claim; the claim also asks that the status otherwise stays as it was).  *)
C4_QualifiedIffAllPopulated ==
    [][(last'.node = "collect_details"
          /\ state.status \in {"qualifying", "collecting_details"})
          => (state'.status = "qualified" <=> AllPopulated(state'))]_vars

(* C5: is_qualified() is true iff both missing-field lists are empty, and  *)
(* each list holds exactly the unpopulated required fields of its group.   *)
C5_MissingListsExact ==
    /\ is_qualified(state)
         <=> (get_missing_lead_fields(state) = << >>
                /\ get_missing_pet_fields(state) = << >>)
    /\ Range(get_missing_lead_fields(state))
         = {f \in Range(LeadRequired) : ~Populated(f, state[f])}
    /\ Range(get_missing_pet_fields(state))
         = {f \in Range(PetRequired) : ~Populated(f, state[f])}

(* C6: the merge of collect_details never turns a populated fact field     *)
(* into an unpopulated one.                                                *)
C6_NoRegressionOfFacts ==
    [][last'.node = "collect_details"
          => \A f \in FactFields :
                Populated(f, state[f]) => Populated(f, state'[f])]_vars

(* C8: when the extraction call raises or returns malformed or non-object  *)
(* output, collect_details changes no fact field and returns normally.     *)
C8_FailedExtractionIsHarmless ==
    [][(last'.node = "collect_details"
          /\ last'.extraction \in {"raises", "malformed", "non_object"})
          => (Facts(state') = Facts(state) /\ last'.outcome = "returned")]_vars

C9_ClassifierFailsSafe ==
    /\ turn.route # "none" => turn.route \in Stages
    /\ (/\ turn.ended # "none"
        /\ \/ turn.classification = "raises"
           \/ /\ turn.classification # "none"
              /\ Lower(turn.classification) \notin RecognizedLabels \cup Stages)
         => /\ turn.route = "generate_response"
            /\ turn.lead_id \in DOMAIN thread_states
            /\ thread_states[turn.lead_id].status = turn.status_before

(* C10: every call of process_message returns a non-empty response text.   *)
C10_ResponseNeverEmpty == turn.ended # "none" => turn.returned # ""

(* C11: a turn in which a collaborator or the code itself raises does not  *)
(* propagate the exception: process_message returns, and what it returns   *)
(* for that turn is the generic apology.                                   *)
C11_FaultsEndInApology ==
    /\ turn.ended \in {"none", "completed", "failed"}
    /\ turn.ended = "failed" => turn.returned = Apology

\* the classification call raised and the caller got the apology
C11_Witness ==
    /\ turn.ended = "failed"
    /\ turn.classification = "raises"
    /\ turn.returned = Apology

(* C12: a stage handler that raises leaves the status and the fact fields  *)
(* of the state it was invoked on as they were before it started.          *)
C12_HandlerWritesAllOrNothing ==
    [][(last'.outcome = "raised" /\ last'.node \in FunnelHandlers)
          => (state'.status = state.status /\ Facts(state') = Facts(state))]_vars

(* C13: a completed turn that did not go through provide_brand_info ran    *)
(* exactly one funnel handler and ran generate_response as its last step.  *)
C13_ResponseComposedLast ==
    (turn.ended = "completed" /\ "provide_brand_info" \notin Range(turn.path))
      => /\ Cardinality({i \in 1..Len(turn.path) :
                            turn.path[i] \in FunnelHandlers}) = 1
         /\ turn.path[Len(turn.path)] = "generate_response"

(* C15: a turn classified as brand information runs provide_brand_info     *)
(* directly after the classifier and then ends; no funnel handler runs,    *)
(* and the thread's status and fact fields are those it had before the     *)
(* turn, whatever the status was.                                          *)
C15_BrandInfoBypassesFunnel ==
    (turn.ended # "none" /\ turn.route = "provide_brand_info")
      => /\ Range(turn.path) \cap FunnelHandlers = {}
         /\ turn.ended = "completed"
               => turn.path = <<"classify_intent", "provide_brand_info">>
         /\ thread_states[turn.lead_id].status = turn.before.status
         /\ Facts(thread_states[turn.lead_id]) = Facts(turn.before)

\* a brand-information turn completed on a booked thread with known facts
C15_Witness ==
    /\ turn.ended = "completed"
    /\ turn.route = "provide_brand_info"
    /\ turn.before.status = "booked"
    /\ turn.before.customer_name = Some("Ann")
    /\ Len(thread_states[turn.lead_id].conversation_history) = 2

(* C19: a turn that runs a funnel handler for a thread in an active status *)
(* whose last activity is more than one hour old leaves the thread         *)
(* stalled.                                                                *)
C19_IdleThreadBecomesStalled ==
    (/\ turn.ended = "completed"
     /\ Range(turn.path) \cap FunnelHandlers # {}
     /\ turn.before.status \notin TerminalStatuses
     /\ Len(turn.before.conversation_history) > 0
     /\ LET h == thread_states[turn.lead_id].conversation_history
        IN  h[Len(h)].timestamp - turn.before.last_activity > 1)
      => thread_states[turn.lead_id].status = "stalled"

(* C14: generate_response leaves the status, the identifiers and the lead  *)
(* and pet fact fields as they were, in every status; it changes nothing   *)
(* but the conversation log (one entry appended at most, with the          *)
(* last_message and last_activity derived from it) and the outbound text.  *)
C14_ComposerFrame ==
    [][ApplyGenerateResponse =>
        /\ \A f \in DOMAIN state \ {"conversation_history", "last_message",
                                      "last_activity", "response"} :
              state'[f] = state[f]
        /\ \/ state'.conversation_history = state.conversation_history
           \/ /\ Len(state'.conversation_history)
                    = Len(state.conversation_history) + 1
              /\ SubSeq(state'.conversation_history, 1,
                        Len(state.conversation_history))
                    = state.conversation_history]_vars

\* a response was composed for a thread still collecting details
C14_Witness ==
    /\ last.node = "generate_response"
    /\ last.outcome = "returned"
    /\ state.status = "collecting_details"
    /\ state.customer_name = Some("Ann")
    /\ state.age_years = None
    /\ Len(state.conversation_history) = 1

(* C16: qualify_lead on a state in status initiated yields                 *)
(* collecting_details when a required lead or pet field holds no value and *)
(* qualifying when all of them do, and changes no fact field.              *)
C16_QualifyLeadOutcome ==
    [][(last'.node = "qualify_lead" /\ state.status = "initiated")
          => /\ state'.status = IF AllPopulated(state) THEN "qualifying"
                                ELSE "collecting_details"
             /\ Facts(state') = Facts(state)]_vars

(* C17: show_services on a qualified state returns without raising, sets   *)
(* showing_services exactly when the fetched catalog is non-empty, and     *)
(* leaves the status qualified when it is empty or the store unavailable.  *)
C17_ShowServicesOutcome ==
    [][(ApplyShowServices /\ state.status = "qualified")
          => /\ last'.outcome = "returned"
             /\ state'.status = IF last'.extraction = "services"
                                THEN "showing_services" ELSE "qualified"]_vars

(* C18: follow_up sets the status to stalled exactly when the last         *)
(* activity is more than one hour old and the status is active and         *)
(* non-terminal; otherwise it leaves the status as it was.                 *)
C18_FollowUpOutcome ==
    [][ApplyFollowUp
          => state'.status =
                IF now - state.last_activity > 1
                     /\ state.status \notin TerminalStatuses
                THEN "stalled" ELSE state.status]_vars

(* C20: a funnel handler applied again, with the same extraction result    *)
(* or catalog, to the state its previous application left changes no       *)
(* field other than last_activity.                                         *)
C20_HandlersIdempotent ==
    [][(/\ last.node \in FunnelHandlers
        /\ last'.node = last.node
        /\ last'.count = last.count + 1)
          => \A f \in DOMAIN state \ {"last_activity"} : state'[f] = state[f]]_vars

\* collect_details ran twice with a result that fills the last missing
\* field, the second time an hour after the first
C20_Witness ==
    /\ last.node = "collect_details"
    /\ last.count = 2
    /\ llm_reply.kind = "object"
    /\ DOMAIN llm_reply.data = {"age_years"}
    /\ state.age_years = Some("3")
    /\ state.status = "qualified"
    /\ state.last_activity = 1

(* C21: the turns of one thread do not interleave: while one               *)
(* process_message call for a lead_id is between its start and its return, *)
(* no other call for the same lead_id has started its turn.                *)
C21_TurnsDoNotInterleave ==
    \A c1 \in CallIds, c2 \in CallIds :
        (c1 # c2 /\ calls[c1].lead_id = calls[c2].lead_id)
          => ~(calls[c1].pc \in {"awaiting", "resumed"}
                 /\ calls[c2].pc \in {"awaiting", "resumed"})

(* C22: whatever the interleaving of the calls, one lead_id has at most    *)
(* one lead record inserted for it and one registered state, which every   *)
(* call that got past get_or_create_state shares, and a registered state   *)
(* carries the lead_id it is registered under.                             *)
C22_OneStatePerLead ==
    /\ \A l \in LeadIds :
          /\ Cardinality({c \in CallIds : calls[c].lead_id = l
                                           /\ calls[c].inserted > 0}) <= 1
          /\ Len(LeadRows(sheet.leads, l)) <= 1
    /\ \A l \in DOMAIN thread_states : thread_states[l].lead_id = l
    /\ \A c \in CallIds :
          calls[c].pc \in {"awaiting", "resumed"}
            => /\ calls[c].lead_id \in DOMAIN thread_states
               /\ calls[c].work.pet_id = thread_states[calls[c].lead_id].pet_id

\* two first messages of one lead_id are in flight at once, and the store
\* holds the one record the first of them inserted
C22_Witness ==
    /\ \A c \in CallIds : calls[c].pc = "awaiting" /\ calls[c].lead_id = "T1"
    /\ Len(LeadRows(sheet.leads, "T1")) = 1

(* C25: the pet_id of a thread is the one first generated for it: once a   *)
(* pet record has been written for a lead_id, a state registered for that  *)
(* lead_id carries the pet_id of that record, and a call for it made after *)
(* the registry was lost leaves such a state registered.                   *)
C25_PetIdStable ==
    \A l \in LeadIds :
        LET pets == LeadRows(sheet.pets, l)
        IN  Len(pets) > 0
              => /\ l \in DOMAIN thread_states
                      => thread_states[l].pet_id = Some(pets[1].pet_id)
                 /\ (turn.ended # "none" /\ turn.lead_id = l)
                      => l \in DOMAIN thread_states

(* C27: for a lead_id that is not registered and has a lead record in the  *)
(* store, get_or_create_state returns a state whose status is the          *)
(* persisted status and inserts no record.                                 *)
C27_RehydratesFromStore ==
    \A l \in LeadIds :
        (l \notin DOMAIN thread_states /\ get_record(sheet.leads, l) # None)
          => LET g == get_or_create_state(thread_states, sheet, l, "U1", "PET1",
                                          TRUE, TRUE, TRUE, now)
             IN  /\ g.outcome = "returned"
                 /\ g.rows = sheet
                 /\ l \in DOMAIN g.registry
                 /\ g.registry[l].status = get_record(sheet.leads, l)[1].status

(* C28: after a completed turn that ran qualify_lead, the registered state *)
(* of the thread carries the status that handler produced.                 *)
C28_TurnResultIsRegistered ==
    (turn.ended = "completed" /\ "qualify_lead" \in Range(turn.path))
      => thread_states[turn.lead_id].status
           = qualify_lead_node(turn.before, now).st.status

(* C29: after a completed turn the lead record in the store carries the    *)
(* status of the registered state, and get_or_create_state on an empty     *)
(* registry yields a state with that status.                               *)
C29_StoreIsSourceOfTruth ==
    turn.ended = "completed"
      => LET l == turn.lead_id
             lead == get_record(sheet.leads, l)
             g == get_or_create_state([k \in {} |-> NoWork], sheet, l, "U1", "PET1",
                                      TRUE, TRUE, TRUE, now)
         IN  /\ lead # None
             /\ lead[1].status = thread_states[l].status
             /\ g.outcome = "returned"
             /\ g.registry[l].status = thread_states[l].status

(* C23: once appointment_id holds a value no operation changes it.         *)
C23_AppointmentIdSetOnce ==
    [][state.appointment_id # None
          => state'.appointment_id = state.appointment_id]_vars

(* C24: whenever appointment_id holds a value the status is booked,        *)
(* completed or cancelled.                                                 *)
C24_AppointmentImpliesBooked ==
    state.appointment_id # None
      => state.status \in {"booked", "completed", "cancelled"}

(* C26: collect_details leaves the conversation log a prefix of what it    *)
(* is afterwards, and afterwards last_message is the content of the last   *)
(* entry of the log.                                                       *)
C26_LogAppendOnly ==
    [][CollectDetailsOnce =>
        LET before == state.conversation_history
            after == state'.conversation_history
        IN  /\ Len(before) <= Len(after)
            /\ SubSeq(after, 1, Len(before)) = before
            /\ Len(after) > 0 => state'.last_message = after[Len(after)].content]_vars

(* C30: the message composed for status collecting_details names every     *)
(* required field that is missing, and says that all information is        *)
(* present only when none is.                                              *)
C30_MessageNamesAllMissing ==
    (/\ last.node = "generate_response"
     /\ last.outcome = "returned"
     /\ state.status = "collecting_details")
      => LET missing == Range(get_missing_lead_fields(state))
                          \cup Range(get_missing_pet_fields(state))
         IN  /\ state.last_message = AllPresentMessage => missing = {}
             /\ missing # {} => Range(missing_items_fields(state)) = missing

(* C33: when show_services or book_appointment is entered while a required *)
(* field is missing, the handler returns without an error and the status   *)
(* afterwards is collecting_details: it does not advance.                  *)
C33_MissingFieldHoldsFunnel ==
    [][((ApplyShowServices \/ ApplyBookAppointment) /\ ~is_qualified(state))
          => /\ last'.outcome = "returned"
             /\ state'.status = "collecting_details"]_vars

\* the order of the funnel; qualifying and collecting_details are one stage
FunnelRank ==
    [initiated |-> 0, qualifying |-> 1, collecting_details |-> 1,
     qualified |-> 2, showing_services |-> 3, booking_appointment |-> 4,
     booked |-> 5]

(* C34: along the funnel the status never moves backward, except that it   *)
(* may fall back to collecting_details while a required field is missing;  *)
(* in particular no handler moves a status of qualified or later back to   *)
(* qualifying.                                                             *)
C34_StatusMonotonic ==
    [][(/\ state.status \in DOMAIN FunnelRank
        /\ state'.status \in DOMAIN FunnelRank)
          => \/ FunnelRank[state'.status] >= FunnelRank[state.status]
             \/ /\ state'.status = "collecting_details"
                /\ ~is_qualified(state')]_vars

(* C37: whenever the status is qualified, showing_services,                *)
(* booking_appointment or booked, all seven required fields are populated. *)
C37_LateStatusImpliesQualified ==
    state.status \in {"qualified", "showing_services", "booking_appointment",
                      "booked"}
      => AllPopulated(state)

C31_ScenarioA ==
    (/\ turn.ended = "completed"
     /\ turn.route = "qualify_lead"
     /\ turn.before.status = "initiated"
     /\ turn.before.conversation_history = << >>
     /\ thread_states[turn.lead_id].conversation_history[1].content = ScenarioAMessage)
      => LET s == thread_states[turn.lead_id]
         IN  /\ s.status = "collecting_details"
             /\ s.customer_name = Some("Jane")
             /\ s.phone = Some("555-1212")
             /\ turn.returned \notin {"", Apology, AllPresentMessage}

(* C32: a call of process_message never fails in get_or_create_state:      *)
(* whether the record store is unavailable or a record is absent, when the *)
(* call has ended the thread's state is registered.                        *)
C32_StoreFaultsDegrade ==
    turn.ended # "none" => turn.lead_id \in DOMAIN thread_states

(* C36: each of the seven stage identifiers is routable: whenever a call   *)
(* of process_message is about to classify the message, for each stage     *)
(* there is an answer of the classifier after which the run enters it.     *)
C36_EveryStageRoutable ==
    turn.pc = "classify_intent" => Stages \subseteq RoutableStages

(* C38: a completed turn appends exactly two entries to the thread's log,  *)
(* the user's message and then an assistant entry whose content is the     *)
(* returned response; a failed turn appends the user's entry only.         *)
C38_TurnLogEntries ==
    turn.ended \in {"completed", "failed"}
      => /\ turn.lead_id \in DOMAIN thread_states
         /\ LET h == thread_states[turn.lead_id].conversation_history
                b == turn.before.conversation_history
                n == Len(b)
            IN  /\ Len(h) > n
                /\ SubSeq(h, 1, n) = b
                /\ h[n + 1].role = "user"
                /\ h[n + 1].content \in Messages
                /\ turn.ended = "failed" => Len(h) = n + 1
                /\ turn.ended = "completed"
                      => /\ Len(h) = n + 2
                         /\ h[n + 2].role = "assistant"
                         /\ h[n + 2].content = turn.returned

C40_TurnTerminates ==
    /\ [](\A i \in 1..Len(turn.path), j \in 1..Len(turn.path) :
             i # j => turn.path[i] # turn.path[j])
    /\ (turn.pc # "idle") ~> (turn.pc = "idle" /\ turn.ended \in {"completed", "failed"})

C40_Witness ==
    /\ turn.pc = "idle"
    /\ turn.ended = "completed"
    /\ turn.path = <<"classify_intent", "qualify_lead">>
    /\ Len(thread_states[turn.lead_id].conversation_history) = MaxHistory

====
